---------------------------- MODULE Spec2Model ----------------------------
(***************************************************************************)
(* A model of the IBFT round state (consensus/ibft/state.go), of the v1    *)
(* sync service (protocol/service_v1.go), of the parts of the IBFT driver  *)
(* that use the round state and of the dev sealer.                         *)
(*                                                                         *)
(* The module holds several specifications over one set of variables; each *)
(* exercises one part of the program and leaves the other variables at     *)
(* their initial values:                                                   *)
(*   SpecVset      ValidatorSet.Add / ValidatorSet.Del                     *)
(*   SpecProposer  ValidatorSet.CalcProposer                               *)
(*   SpecObjects   serviceV1.GetObjectsByHash                              *)
(*   SpecHeaders   serviceV1.GetHeaders                                    *)
(*   SpecRound     one node's currentState under arbitrary messages        *)
(*   SpecIbft      the validators of a network running one height          *)
(*   SpecLock      one validator under arbitrary messages and timeouts       *)
(*   SpecEqual     ValidatorSet.Equal, Add then Del                          *)
(*   SpecQuorum    MinFaultyNodes, NumValid and the vote tallies             *)
(*   SpecCalls     the methods of currentState, call by call                 *)
(*   SpecDev       the dev sealer (Dev.StartSeal, Dev.run, Dev.do, Dev.Close)*)
(***************************************************************************)
EXTENDS Integers, Sequences, FiniteSets, TLC

VARIABLES
    validators,  \* a ValidatorSet value (SpecVset, SpecProposer)
    outcome,     \* what the last call on `validators` did or returned
    cpIn,        \* the arguments of the CalcProposer call (SpecProposer)
    store,       \* the blockchain (behind the sync service, under the dev sealer)
    req,         \* the request last served by the sync service
    resp,        \* the reply to req, as built so far
    frame,       \* the locals of the calls in progress (GetHeaders, Dev.run)
    c,           \* one node's currentState (SpecRound)
    written,     \* the blocks written (SpecRound, SpecDev)
    nodes,       \* the honest nodes of a network (SpecIbft)
    net          \* the messages broadcast so far (SpecIbft)

vars == <<validators, outcome, cpIn, store, req, resp, frame, c, written, nodes, net>>

vsetVars == <<validators, outcome, cpIn>>
syncVars == <<store, req, resp, frame>>
roundVars == <<c, written>>
ibftVars == <<nodes, net>>

---------------------------------------------------------------------------
(* Addresses.  types.ZeroAddress is the all-zero address.                  *)

ZeroAddress == "0x0"

\* The addresses validator sets are built from.
Addrs == {"A", "B", "C", "D"}

\* An address that is never a validator.
Outsider == "X"

\* Largest validator set the Add action builds.
MaxValidators == 4

---------------------------------------------------------------------------
(* ValidatorSet: a Go slice of addresses, modelled as a sequence.  Go      *)
(* indexes from 0; v[i] in Go is v[i + 1] here.                            *)

\* ValidatorSet.Index: the first index holding addr, -1 if there is none.
Index(v, addr) ==
    IF \E i \in 1..Len(v) : v[i] = addr
    THEN (CHOOSE i \in 1..Len(v) :
              v[i] = addr /\ \A j \in 1..(i - 1) : v[j] # addr) - 1
    ELSE -1

\* ValidatorSet.Includes
Includes(v, addr) == Index(v, addr) # -1

\* ValidatorSet.Add: append, with no check for an address already present.
Add(v, addr) == Append(v, addr)

(* ValidatorSet.Del.  The range loop runs over the slice as it was on      *)
(* entry: indx goes through 0..len-1 of the original slice and each element*)
(* is read from the backing array when its turn comes.  On a match the     *)
(* tail is shifted left in the backing array and the slice shrinks by one. *)
(* arr is the backing array, n the current length of the slice.  Slicing   *)
(* the shrunk slice from indx+1 with indx+1 > n is a slice-bounds panic.   *)
ShiftLeft(arr, indx, n) ==
    [k \in 1..Len(arr) |->
        IF k >= indx + 1 /\ k <= n - 1 THEN arr[k + 1] ELSE arr[k]]

RECURSIVE DelLoop(_, _, _, _)
DelLoop(arr, n, indx, addr) ==
    IF indx >= Len(arr)
    THEN [v |-> SubSeq(arr, 1, n), panic |-> FALSE]
    ELSE IF arr[indx + 1] = addr
         THEN IF indx + 1 > n
              THEN [v |-> SubSeq(arr, 1, n), panic |-> TRUE]
              ELSE DelLoop(ShiftLeft(arr, indx, n), n - 1, indx + 1, addr)
         ELSE DelLoop(arr, n, indx + 1, addr)

Del(v, addr) == DelLoop(v, Len(v), 0, addr)

\* ValidatorSet.Equal: the lengths first, then element by element.
EqualLenOnly(v, vv) == Len(v) = Len(vv)

Equal(v, vv) ==
    IF Len(v) # Len(vv)
    THEN FALSE
    ELSE \A indx \in 0..(Len(v) - 1) : v[indx + 1] = vv[indx + 1]

\* ValidatorSet.MinFaultyNodes: int(math.Ceil(float64(len)/3)) - 1
MinFaultyNodesFloor(v) == Len(v) \div 3

MinFaultyNodes(v) == ((Len(v) + 2) \div 3) - 1

---------------------------------------------------------------------------
(* SpecVset: Add and Del from the empty set.                               *)

NoOutcome == [op |-> "none", panic |-> FALSE]

\* The parts of the program a specification does not exercise.
VsetIdle == validators = <<>> /\ outcome = NoOutcome /\ cpIn = <<>>
SyncIdle == store = <<>> /\ req = <<>> /\ resp = <<>> /\ frame = <<>>
RoundIdle == c = <<>> /\ written = <<>>
IbftIdle == nodes = <<>> /\ net = {}

InitVset ==
    /\ validators = <<>>
    /\ outcome = NoOutcome
    /\ cpIn = <<>>
    /\ SyncIdle
    /\ RoundIdle
    /\ IbftIdle

VsetAdd ==
    /\ ~outcome.panic
    /\ Len(validators) < MaxValidators
    /\ \E addr \in Addrs :
        /\ validators' = Add(validators, addr)
        /\ outcome' = [op |-> "Add", addr |-> addr, panic |-> FALSE]
    /\ UNCHANGED <<cpIn, syncVars, roundVars, ibftVars>>

VsetDel ==
    /\ ~outcome.panic
    /\ \E addr \in Addrs :
        LET r == Del(validators, addr) IN
        /\ validators' = r.v
        /\ outcome' = [op |-> "Del", addr |-> addr, panic |-> r.panic]
    /\ UNCHANGED <<cpIn, syncVars, roundVars, ibftVars>>

NextVset == VsetAdd \/ VsetDel

SpecVset == InitVset /\ [][NextVset]_vars

Distinct(v) == \A i, j \in 1..Len(v) : i # j => v[i] # v[j]

(* C10: after any sequence of Add and Del from the empty set the addresses *)
(* of the ValidatorSet are pairwise distinct, an Add of an address already *)
(* present creates no second entry, and a Del leaves no copy of the        *)
(* address and completes normally.                                         *)
C10_Distinct ==
    /\ Distinct(validators)
    /\ ~outcome.panic
    /\ (outcome.op = "Del" => ~Includes(validators, outcome.addr))

---------------------------------------------------------------------------
(* uint64 values.  TLC's integers are 32 bits wide, so a uint64 is four    *)
(* 16-bit limbs, most significant first; addition wraps at 2^64 as Go's    *)
(* does.                                                                   *)

Limb == 2 ^ 16

U64FromNat(k) == <<0, 0, k \div Limb, k % Limb>>

\* math.MaxUint64 - k, for k < 2^16
U64FromTop(k) == <<Limb - 1, Limb - 1, Limb - 1, Limb - 1 - k>>

\* a + b mod 2^64: ripple carry from the least significant limb.
U64Add(a, b) ==
    LET s4 == a[4] + b[4]
        s3 == a[3] + b[3] + (s4 \div Limb)
        s2 == a[2] + b[2] + (s3 \div Limb)
        s1 == a[1] + b[1] + (s2 \div Limb)
    IN  <<s1 % Limb, s2 % Limb, s3 % Limb, s4 % Limb>>

\* a % n for 0 < n < 2^15, limb by limb.
U64Mod(a, n) ==
    LET r1 == a[1] % n
        r2 == (r1 * Limb + a[2]) % n
        r3 == (r2 * Limb + a[3]) % n
    IN  (r3 * Limb + a[4]) % n

\* math.MaxUint64 - a when that is below 2^16, else 2^16.
U64GapToMax(a) ==
    IF a[1] = Limb - 1 /\ a[2] = Limb - 1 /\ a[3] = Limb - 1
    THEN Limb - 1 - a[4]
    ELSE Limb

---------------------------------------------------------------------------
(* ValidatorSet.CalcProposer                                               *)

\* The seed: round, or offset + round + 1 in uint64 arithmetic.
SeedNoIncrement(v, round, lastProposer) ==
    IF lastProposer = ZeroAddress
    THEN round
    ELSE LET indx == Index(v, lastProposer)
             offset == IF indx # -1 THEN indx ELSE 0
         IN  U64Add(U64FromNat(offset), round)

Seed(v, round, lastProposer) ==
    IF lastProposer = ZeroAddress
    THEN round
    ELSE LET indx == Index(v, lastProposer)
             offset == IF indx # -1 THEN indx ELSE 0
         IN  U64Add(U64Add(U64FromNat(offset), round), U64FromNat(1))

\* pick := seed % uint64(v.Len()), for v.Len() > 0
PickOffByOne(seed, n) == U64Mod(seed, n + 1)

Pick(seed, n) == U64Mod(seed, n)

\* v[pick]: an index past the end is a runtime panic.
ElemAt(v, pick) ==
    IF pick < Len(v)
    THEN [panic |-> FALSE, addr |-> v[pick + 1]]
    ELSE [panic |-> TRUE, addr |-> ZeroAddress]

\* seed % 0 is a runtime panic (integer divide by zero).
CalcProposer(v, round, lastProposer) ==
    IF Len(v) = 0
    THEN [panic |-> TRUE, addr |-> ZeroAddress]
    ELSE ElemAt(v, Pick(Seed(v, round, lastProposer), Len(v)))

---------------------------------------------------------------------------
(* SpecProposer: CalcProposer on every validator set of up to              *)
(* MaxProposerSet addresses, rounds at both ends of the uint64 range and   *)
(* every kind of lastProposer; then on the rounds that follow.             *)

MaxProposerSet == 4
MaxRound == 5
MaxTopGap == 4

RECURSIVE SeqsUpTo(_, _)
SeqsUpTo(S, n) ==
    IF n = 0
    THEN {<<>>}
    ELSE LET shorter == SeqsUpTo(S, n - 1)
         IN  shorter \cup {Append(q, x) : q \in {t \in shorter : Len(t) = n - 1}, x \in S}

ProposerSets == SeqsUpTo(Addrs, MaxProposerSet)

ProposerRounds ==
    {U64FromNat(k) : k \in 0..MaxRound} \cup {U64FromTop(k) : k \in 0..MaxTopGap}

LastProposers == {ZeroAddress, Outsider} \cup Addrs

InitProposer ==
    /\ cpIn \in [set : ProposerSets, round : ProposerRounds, last : LastProposers]
    /\ validators = cpIn.set
    /\ outcome = NoOutcome
    /\ SyncIdle
    /\ RoundIdle
    /\ IbftIdle

\* c.validators.CalcProposer(round, lastProposer)
ProposerCalc ==
    /\ outcome.op = "none"
    /\ LET r == CalcProposer(validators, cpIn.round, cpIn.last) IN
        outcome' = [op |-> "CalcProposer", panic |-> r.panic, addr |-> r.addr,
                    prev |-> ZeroAddress]
    /\ UNCHANGED <<validators, cpIn, syncVars, roundVars, ibftVars>>

\* The same call for the next round, lastProposer unchanged.
ProposerNextRound ==
    /\ outcome.op = "CalcProposer"
    /\ ~outcome.panic
    /\ U64GapToMax(cpIn.round) > 0
    /\ cpIn.round # U64FromNat(MaxRound)
    /\ LET next == U64Add(cpIn.round, U64FromNat(1))
           r == CalcProposer(validators, next, cpIn.last)
       IN  /\ cpIn' = [cpIn EXCEPT !.round = next]
           /\ outcome' = [op |-> "CalcProposer", panic |-> r.panic, addr |-> r.addr,
                          prev |-> outcome.addr]
    /\ UNCHANGED <<validators, syncVars, roundVars, ibftVars>>

NextProposer == ProposerCalc \/ ProposerNextRound

SpecProposer == InitProposer /\ [][NextProposer]_vars

Range(v) == {v[i] : i \in 1..Len(v)}

(* C3 as stated: for every validator set (the empty one included), round   *)
(* and lastProposer, CalcProposer returns normally an address of the set   *)
(* and leaves the set as it was.                                           *)
C3_AnySet ==
    outcome.op = "CalcProposer" =>
        /\ ~outcome.panic
        /\ outcome.addr \in Range(validators)
        /\ validators = cpIn.set

(* C3 amended: for every non-empty validator set, every round and every    *)
(* lastProposer, CalcProposer returns normally an address of the set and   *)
(* leaves the set as it was.                                               *)
C3_NonEmptySet ==
    (outcome.op = "CalcProposer" /\ Len(cpIn.set) >= 1) =>
        /\ ~outcome.panic
        /\ outcome.addr \in Range(validators)
        /\ validators = cpIn.set

C3_Witness ==
    /\ outcome.op = "CalcProposer"
    /\ Len(cpIn.set) = 3
    /\ cpIn.last = Outsider
    /\ cpIn.round = U64FromTop(0)
    /\ outcome.addr \in Range(validators)

\* index(lastProposer), 0 for an address that is not in the set
OffsetOf(v, a) == IF Includes(v, a) THEN Index(v, a) ELSE 0

\* (offset + round + 1) mod n over the integers, without forming the sum
MathSeedMod(v, round, last) ==
    IF last = ZeroAddress
    THEN U64Mod(round, Len(v))
    ELSE (U64Mod(round, Len(v)) + OffsetOf(v, last) + 1) % Len(v)

\* the same with the sum reduced modulo 2^64 first
WrappedSeedMod(v, round, last) ==
    IF last # ZeroAddress /\ U64GapToMax(round) <= OffsetOf(v, last)
    THEN (OffsetOf(v, last) - U64GapToMax(round)) % Len(v)
    ELSE MathSeedMod(v, round, last)

Follows(v, a, b) == Index(v, b) = (Index(v, a) + 1) % Len(v)

Scenario1 ==
    (cpIn.set = <<"A", "B", "C", "D">> /\ cpIn.last = ZeroAddress) =>
        /\ cpIn.round = U64FromNat(0) => outcome.addr = "A"
        /\ cpIn.round = U64FromNat(1) => outcome.addr = "B"
        /\ cpIn.round = U64FromNat(4) => outcome.addr = "A"

(* C4 as stated: on n >= 1 distinct validators CalcProposer returns        *)
(* set[seed mod n] with seed = round (zero lastProposer), index + round + 1*)
(* (member) or round + 1 (non-member), the sum taken over the integers;    *)
(* the proposer of round r+1 follows the proposer of round r in set order; *)
(* [A,B,C,D] with zero lastProposer gives A, B, A for rounds 0, 1, 4.      *)
C4_IntegerSeed ==
    (outcome.op = "CalcProposer" /\ Len(cpIn.set) >= 1 /\ Distinct(cpIn.set)) =>
        /\ ~outcome.panic
        /\ outcome.addr = cpIn.set[MathSeedMod(cpIn.set, cpIn.round, cpIn.last) + 1]
        /\ outcome.prev # ZeroAddress => Follows(cpIn.set, outcome.prev, outcome.addr)
        /\ Scenario1

(* C4 amended: the same with the seed computed in uint64 arithmetic, that  *)
(* is modulo 2^64; the proposer of round r+1 follows the proposer of round *)
(* r whenever the seed of round r+1 has not wrapped to 0.                  *)
C4_WrappedSeed ==
    (outcome.op = "CalcProposer" /\ Len(cpIn.set) >= 1 /\ Distinct(cpIn.set)) =>
        /\ ~outcome.panic
        /\ outcome.addr = cpIn.set[WrappedSeedMod(cpIn.set, cpIn.round, cpIn.last) + 1]
        /\ (/\ outcome.prev # ZeroAddress
            /\ (cpIn.last = ZeroAddress
                    \/ U64GapToMax(cpIn.round) # OffsetOf(cpIn.set, cpIn.last)))
                => Follows(cpIn.set, outcome.prev, outcome.addr)
        /\ Scenario1

C4_Witness ==
    /\ outcome.op = "CalcProposer"
    /\ cpIn.set = <<"A", "B", "C", "D">>
    /\ cpIn.last = ZeroAddress
    /\ cpIn.round = U64FromNat(4)
    /\ outcome.prev = "D"
    /\ outcome.addr = "A"

---------------------------------------------------------------------------
(* SpecEqual: Equal on every pair of validator sets of up to MaxEqualLen   *)
(* addresses; Add of an address followed by Del of it; Del of an address   *)
(* at any position.                                                        *)

MaxEqualLen == 3

EqualAddrs == {"A", "B", "C"}

EqualSets == SeqsUpTo(EqualAddrs, MaxEqualLen)

InitEqual ==
    /\ cpIn \in [v : EqualSets, w : EqualSets]
    /\ validators = cpIn.v
    /\ outcome = NoOutcome
    /\ SyncIdle
    /\ RoundIdle
    /\ IbftIdle

\* v.Equal(w), w.Equal(v) and v.Equal(v)
EqualCompare ==
    /\ outcome.op = "none"
    /\ outcome' = [op |-> "Equal", panic |-> FALSE,
                   vw |-> Equal(validators, cpIn.w),
                   wv |-> Equal(cpIn.w, validators),
                   vv |-> Equal(validators, validators)]
    /\ UNCHANGED <<validators, cpIn, syncVars, roundVars, ibftVars>>

\* v.Add(x)
EqualAdd ==
    /\ outcome.op = "none"
    /\ \E x \in Addrs :
        /\ validators' = Add(validators, x)
        /\ outcome' = [op |-> "Add", addr |-> x, panic |-> FALSE]
    /\ UNCHANGED <<cpIn, syncVars, roundVars, ibftVars>>

\* v.Del(x) right after v.Add(x); then Equal with the set before the Add.
EqualDelAdded ==
    /\ outcome.op = "Add"
    /\ LET r == Del(validators, outcome.addr) IN
        /\ validators' = r.v
        /\ outcome' = [op |-> "AddDel", addr |-> outcome.addr, panic |-> r.panic,
                       eq |-> Equal(r.v, cpIn.v), qe |-> Equal(cpIn.v, r.v)]
    /\ UNCHANGED <<cpIn, syncVars, roundVars, ibftVars>>

\* v.Del(x) for an address at any position of v.
EqualDel ==
    /\ outcome.op = "none"
    /\ \E x \in Addrs :
        LET r == Del(validators, x) IN
        /\ validators' = r.v
        /\ outcome' = [op |-> "Del", addr |-> x, panic |-> r.panic]
    /\ UNCHANGED <<cpIn, syncVars, roundVars, ibftVars>>

NextEqual == EqualCompare \/ EqualAdd \/ EqualDelAdded \/ EqualDel

SpecEqual == InitEqual /\ [][NextEqual]_vars

\* v without the address x, the others in their order
Without(v, x) == SelectSeq(v, LAMBDA a : a # x)

(* C11: Equal is reflexive and symmetric and holds exactly when the two    *)
(* sets have the same addresses in the same order; on a set v of distinct  *)
(* addresses, Add(x) for an x not in v followed by Del(x) gives a set      *)
(* Equal to v, and Del(x) for an x at any position leaves the other        *)
(* addresses in their order.                                               *)
C11_EqualAndRoundTrip ==
    /\ outcome.op = "Equal" =>
        /\ outcome.vv
        /\ outcome.vw <=> outcome.wv
        /\ outcome.vw <=> (cpIn.v = cpIn.w)
    /\ (outcome.op = "AddDel" /\ Distinct(cpIn.v) /\ outcome.addr \notin Range(cpIn.v)) =>
        /\ ~outcome.panic
        /\ outcome.eq
        /\ outcome.qe
        /\ validators = cpIn.v
    /\ (outcome.op = "Del" /\ Distinct(cpIn.v)) =>
        /\ ~outcome.panic
        /\ validators = Without(cpIn.v, outcome.addr)

C11_Witness ==
    /\ outcome.op = "AddDel"
    /\ cpIn.v = <<"B", "A", "C">>
    /\ outcome.addr = "D"
    /\ outcome.eq
    /\ validators = <<"B", "A", "C">>

---------------------------------------------------------------------------
(* The sync service (protocol/service_v1.go).                              *)
(*                                                                         *)
(* The store is the blockchainShim behind the service: the heights whose   *)
(* header it has, the hashes whose body it has and the hashes whose        *)
(* receipts it can read.  The header at height k has hash HashOf(k).       *)
(* A hash travels as text; HashText(h) is the text of h, EmptyText the     *)
(* empty string and BadText a text that is no hex string.                  *)

maxHeadersAmount == 190

MaxHeight == 3
MaxObject == 1
MaxHashes == 3

HashOf(k) == <<"hash", k>>
UnknownHash == <<"hash", -1>>
ZeroHash == <<"hash", -2>>

HashText(h) == <<"0x", h[2]>>
EmptyText == <<"", 0>>
BadText == <<"zz", 0>>

WellFormed(text) == text[1] = "0x"

(* types.Hash.UnmarshalText.  A well-formed text gives its hash.  Whether  *)
(* any other text is rejected or read as the zero hash is decided outside  *)
(* these files, so both are allowed: strict says which.                    *)
UnmarshalText(text, strict) ==
    IF WellFormed(text)
    THEN [err |-> FALSE, hash |-> <<"hash", text[2]>>]
    ELSE IF strict
         THEN [err |-> TRUE, hash |-> ZeroHash]
         ELSE [err |-> FALSE, hash |-> ZeroHash]

\* proto.HashRequest.DecodeHashes: UnmarshalText on every text, first error wins.
DecodeHashes(texts, strict) ==
    IF \E i \in 1..Len(texts) : UnmarshalText(texts[i], strict).err
    THEN [err |-> TRUE, hashes |-> <<>>]
    ELSE [err |-> FALSE,
          hashes |-> [i \in 1..Len(texts) |-> UnmarshalText(texts[i], strict).hash]]

\* MarshalRLPTo of a header, a body, a receipts list: never empty.
EncodeHeader(number) == <<"rlp", "header", number>>
EncodeBody(hash) == <<"rlp", "body", hash>>
EncodeReceipts(hash) == <<"rlp", "receipts", hash>>
EmptyBytes == <<>>

\* blockchainShim.GetHeaderByNumber(uint64(n)): a negative n converts to a
\* number above 2^63, which no store of this model holds.
GetHeaderByNumber(st, n) == n >= 0 /\ n \in st.heights

\* blockchainShim.GetHeaderByHash
GetHeaderByHash(st, h) == \E k \in st.heights : HashOf(k) = h

NumberOfHash(st, h) == CHOOSE k \in st.heights : HashOf(k) = h

\* blockchainShim.GetBodyByHash
GetBodyByHash(st, h) == h \in st.bodies

\* blockchainShim.GetReceiptsByHash: err == nil
GetReceiptsByHash(st, h) == h \in st.receipts

(* One turn of the loop of GetObjectsByHash: the object of one hash.       *)
LookupObjectSwallow(st, type, hash) ==
    IF type = "BODIES"
    THEN [err |-> FALSE, found |-> GetBodyByHash(st, hash), data |-> EncodeBody(hash)]
    ELSE IF type = "RECEIPTS"
         THEN [err |-> FALSE, found |-> GetReceiptsByHash(st, hash),
               data |-> EncodeReceipts(hash)]
         ELSE [err |-> FALSE, found |-> FALSE, data |-> EmptyBytes]

LookupObject(st, type, hash) ==
    IF type = "BODIES"
    THEN [err |-> FALSE, found |-> GetBodyByHash(st, hash), data |-> EncodeBody(hash)]
    ELSE IF type = "RECEIPTS"
         THEN IF GetReceiptsByHash(st, hash)
              THEN [err |-> FALSE, found |-> TRUE, data |-> EncodeReceipts(hash)]
              ELSE [err |-> TRUE, found |-> FALSE, data |-> EmptyBytes]
         ELSE [err |-> FALSE, found |-> FALSE, data |-> EmptyBytes]

\* resp.Objs = append(resp.Objs, ...): the data, or []byte{} when not found
AppendIfFound(objs, found, data) == IF found THEN Append(objs, data) ELSE objs

AppendObj(objs, found, data) == Append(objs, IF found THEN data ELSE EmptyBytes)

RECURSIVE ObjectsLoop(_, _, _, _, _)
ObjectsLoop(st, type, hashes, i, objs) ==
    IF i > Len(hashes)
    THEN [err |-> "", nil |-> FALSE, objs |-> objs]
    ELSE LET o == LookupObject(st, type, hashes[i]) IN
         IF o.err
         THEN [err |-> "receipts", nil |-> TRUE, objs |-> <<>>]
         ELSE ObjectsLoop(st, type, hashes, i + 1, AppendObj(objs, o.found, o.data))

\* serviceV1.GetObjectsByHash
GetObjectsByHash(st, rq, strict) ==
    LET d == DecodeHashes(rq.Hash, strict) IN
    IF d.err
    THEN [err |-> "decode", nil |-> TRUE, objs |-> <<>>]
    ELSE ObjectsLoop(st, rq.Type, d.hashes, 1, <<>>)

---------------------------------------------------------------------------
(* SpecObjects: GetObjectsByHash on every store and request.               *)

ObjectHashes == {HashOf(k) : k \in 0..MaxObject}

ObjectStores ==
    [heights : {{}}, bodies : SUBSET ObjectHashes, receipts : SUBSET ObjectHashes]

HashTexts == {HashText(h) : h \in ObjectHashes \cup {UnknownHash}} \cup {BadText}

ObjectRequests ==
    [Hash : SeqsUpTo(HashTexts, MaxHashes), Type : {"BODIES", "RECEIPTS", "OTHER"}]

NoRequest == [op |-> "none"]
NoResponse == [err |-> "", nil |-> TRUE, objs |-> <<>>]
NoFrame == [pc |-> "idle"]

InitObjects ==
    /\ store \in ObjectStores
    /\ req = NoRequest
    /\ resp = NoResponse
    /\ frame = NoFrame
    /\ VsetIdle
    /\ RoundIdle
    /\ IbftIdle

ServeObjects ==
    /\ req = NoRequest
    /\ \E rq \in ObjectRequests, strict \in BOOLEAN :
        /\ req' = [op |-> "GetObjectsByHash", Hash |-> rq.Hash, Type |-> rq.Type,
                   strict |-> strict]
        /\ resp' = GetObjectsByHash(store, rq, strict)
    /\ frame' = [pc |-> "done"]
    /\ UNCHANGED <<store, vsetVars, roundVars, ibftVars>>

\* The reply has gone out; the service waits for the next request.
Replied ==
    /\ frame.pc = "done"
    /\ req' = NoRequest
    /\ resp' = NoResponse
    /\ frame' = NoFrame
    /\ UNCHANGED <<store, vsetVars, roundVars, ibftVars>>

NextObjects == ServeObjects \/ Replied

SpecObjects == InitObjects /\ [][NextObjects]_vars

\* What the store holds for the hash a text names.
HashNamed(text) ==
    IF WellFormed(text) THEN <<"hash", text[2]>> ELSE ZeroHash

Holds(st, type, text) ==
    \/ type = "BODIES" /\ HashNamed(text) \in st.bodies
    \/ type = "RECEIPTS" /\ HashNamed(text) \in st.receipts

Encoded(type, text) ==
    IF type = "BODIES" THEN EncodeBody(HashNamed(text)) ELSE EncodeReceipts(HashNamed(text))

(* C5: every successful GetObjectsByHash response has exactly len(hashes)  *)
(* objects, the i-th being the encoded object of the i-th hash when the    *)
(* store has it and the empty byte sequence when it does not, for BODIES,  *)
(* RECEIPTS and any other kind.                                            *)
C5_ResponseLength ==
    (req.op = "GetObjectsByHash" /\ resp.err = "") =>
        /\ ~resp.nil
        /\ Len(resp.objs) = Len(req.Hash)
        /\ \A i \in 1..Len(req.Hash) :
            resp.objs[i] = IF Holds(store, req.Type, req.Hash[i])
                           THEN Encoded(req.Type, req.Hash[i])
                           ELSE EmptyBytes

C5_Witness ==
    /\ req.op = "GetObjectsByHash"
    /\ req.Type = "BODIES"
    /\ req.Hash = <<HashText(HashOf(0)), HashText(UnknownHash), HashText(HashOf(0))>>
    /\ resp.objs = <<EncodeBody(HashOf(0)), EmptyBytes, EncodeBody(HashOf(0))>>

(* C9: for RECEIPTS a failed receipts lookup of any requested hash makes   *)
(* the whole call return the error and no response; for BODIES a missing   *)
(* body never produces an error, only an empty payload at its position,    *)
(* and the other hashes are still served.                                  *)
C9_ErrorAsymmetry ==
    (req.op = "GetObjectsByHash" /\ resp.err # "decode") =>
        /\ (/\ req.Type = "RECEIPTS"
            /\ \E i \in 1..Len(req.Hash) : ~Holds(store, "RECEIPTS", req.Hash[i]))
                => (resp.err = "receipts" /\ resp.nil /\ resp.objs = <<>>)
        /\ req.Type = "BODIES" =>
            /\ resp.err = ""
            /\ ~resp.nil
            /\ \A i \in 1..Len(req.Hash) :
                /\ ~Holds(store, "BODIES", req.Hash[i]) => resp.objs[i] = EmptyBytes
                /\ Holds(store, "BODIES", req.Hash[i])
                       => resp.objs[i] = EncodeBody(HashNamed(req.Hash[i]))

C9_Witness ==
    /\ req.op = "GetObjectsByHash"
    /\ req.Type = "RECEIPTS"
    /\ Len(req.Hash) = 3
    /\ Holds(store, "RECEIPTS", req.Hash[1])
    /\ ~Holds(store, "RECEIPTS", req.Hash[2])
    /\ resp.err = "receipts"
    /\ resp.nil

---------------------------------------------------------------------------
(* serviceV1.GetHeaders.  req.Number, req.Amount and req.Skip are int64;   *)
(* the values drawn here are far from its limits.                          *)

\* req.Number != 0 && req.Hash != ""
BothSetOr(rq) == rq.Number # 0 \/ rq.Hash # EmptyText

BothSet(rq) == rq.Number # 0 /\ rq.Hash # EmptyText

\* if req.Amount > maxHeadersAmount { req.Amount = maxHeadersAmount }
ClampAmount(amount) == IF amount > maxHeadersAmount THEN maxHeadersAmount ELSE amount

\* A call that has returned.
Returned(err, objs, reads) ==
    [frame |-> [pc |-> "done"],
     resp |-> [err |-> err, nil |-> err # "", objs |-> objs, reads |-> reads]]

(* From the origin found (ok, number) to the first test of the loop: the   *)
(* empty response, or the origin added and count = 1.  skip is             *)
(* req.Skip + 1.                                                           *)
HeadersFrom(rq, ok, number) ==
    IF ~ok
    THEN Returned("", <<>>, 1)
    ELSE [frame |-> [pc |-> "loop", number |-> number, count |-> 1,
                     amount |-> ClampAmount(rq.Amount), skip |-> rq.Skip + 1],
          resp |-> [err |-> "", nil |-> FALSE, objs |-> <<EncodeHeader(number)>>,
                    reads |-> 1]]

\* GetHeaders up to the loop.
HeadersBegin(st, rq, strict) ==
    IF BothSet(rq)
    THEN Returned("cannot have both", <<>>, 0)
    ELSE IF rq.Number # 0
         THEN HeadersFrom(rq, GetHeaderByNumber(st, rq.Number), rq.Number)
         ELSE LET u == UnmarshalText(rq.Hash, strict) IN
              IF u.err
              THEN Returned("unmarshal", <<>>, 0)
              ELSE IF GetHeaderByHash(st, u.hash)
                   THEN HeadersFrom(rq, TRUE, NumberOfHash(st, u.hash))
                   ELSE HeadersFrom(rq, FALSE, 0)

(* One test of the loop condition and, when it holds, one turn of the      *)
(* loop: f is the frame, r the response so far.                            *)
HeadersTurn(st, f, r) ==
    IF ~(f.count < f.amount)
    THEN Returned("", r.objs, r.reads)
    ELSE LET block == f.number + f.skip IN
         IF block < 0
         THEN Returned("", r.objs, r.reads)
         ELSE IF ~GetHeaderByNumber(st, block)
              THEN Returned("", r.objs, r.reads + 1)
              ELSE [frame |-> [f EXCEPT !.number = block, !.count = f.count + 1],
                    resp |-> [r EXCEPT !.objs = Append(r.objs, EncodeHeader(block)),
                                       !.reads = r.reads + 1]]

---------------------------------------------------------------------------
(* SpecHeaders: GetHeaders on every store of heights up to MaxHeight, with *)
(* gaps, and on the chain of heights 0..20 of the spec's scenario 4.       *)

ScenarioChain == 0..20

HeaderStores ==
    [heights : (SUBSET (0..MaxHeight)) \cup {ScenarioChain}, bodies : {{}}, receipts : {{}}]

HeaderNumbers == (-1..MaxHeight) \cup {10}

HeaderHashTexts ==
    {HashText(HashOf(k)) : k \in 0..MaxHeight}
        \cup {HashText(UnknownHash), EmptyText, BadText}

HeaderAmounts ==
    (-1..3) \cup {maxHeadersAmount - 1, maxHeadersAmount, maxHeadersAmount + 1, 500}

HeaderSkips == -3..1

InitHeaders ==
    /\ store \in HeaderStores
    /\ req = NoRequest
    /\ resp = NoResponse
    /\ frame = NoFrame
    /\ VsetIdle
    /\ RoundIdle
    /\ IbftIdle

ServeHeaders ==
    /\ req = NoRequest
    /\ \E number \in HeaderNumbers, hash \in HeaderHashTexts,
          amount \in HeaderAmounts, skip \in HeaderSkips, strict \in BOOLEAN :
        LET rq == [op |-> "GetHeaders", Number |-> number, Hash |-> hash,
                   Amount |-> amount, Skip |-> skip, strict |-> strict]
            b == HeadersBegin(store, rq, strict)
        IN  /\ req' = rq
            /\ resp' = b.resp
            /\ frame' = b.frame
    /\ UNCHANGED <<store, vsetVars, roundVars, ibftVars>>

ServeHeadersLoop ==
    /\ frame.pc = "loop"
    /\ LET t == HeadersTurn(store, frame, resp) IN
        /\ resp' = t.resp
        /\ frame' = t.frame
    /\ UNCHANGED <<store, req, vsetVars, roundVars, ibftVars>>

NextHeaders == ServeHeaders \/ ServeHeadersLoop \/ Replied

SpecHeaders == InitHeaders /\ [][NextHeaders]_vars

\* The number of the header an encoding holds.
DecodedNumber(bytes) == bytes[3]

ReturnedNumbers == [i \in 1..Len(resp.objs) |-> DecodedNumber(resp.objs[i])]

\* The height the request names as its origin (negative: no height).
OriginNumber == IF req.Number # 0 THEN req.Number ELSE HashNamed(req.Hash)[2]

Min(a, b) == IF a < b THEN a ELSE b

\* Height number i of the run from n is non-negative and in the store.
InRun(st, n, step, i) == n + i * step >= 0 /\ (n + i * step) \in st.heights

\* The longest run n, n + step, n + 2*step, ... of at most a heights, all
\* non-negative and in the store.
HeightsRun(st, n, step, a) ==
    LET most == IF a < 0 THEN 0 ELSE a
        k == CHOOSE j \in 0..most :
                 /\ \A i \in 0..(j - 1) : InRun(st, n, step, i)
                 /\ j = most \/ ~InRun(st, n, step, j)
    IN  [i \in 1..k |-> n + (i - 1) * step]

GotHeaders == req.op = "GetHeaders" /\ frame.pc = "done"

(* C6: for every successful GetHeaders(origin n, amount a, skip s) the     *)
(* i-th returned header has number n + i*(s+1), and the list is the        *)
(* longest such prefix with i < a (a clamped to 190) whose heights are all *)
(* non-negative and present; negative skip and skip = -1 included.         *)
C6_HeaderFetchLaw ==
    (GotHeaders /\ resp.err = "") =>
        ReturnedNumbers =
            HeightsRun(store, OriginNumber, req.Skip + 1,
                       Min(req.Amount, maxHeadersAmount))

\* The same for requests with amount >= 1.
HeaderFetchLawFromOne ==
    (GotHeaders /\ resp.err = "" /\ req.Amount >= 1) =>
        ReturnedNumbers =
            HeightsRun(store, OriginNumber, req.Skip + 1,
                       Min(req.Amount, maxHeadersAmount))

\* min(amount, 190), and no header for a negative amount
AmountAsked == IF req.Amount < 0 THEN 0 ELSE Min(req.Amount, maxHeadersAmount)

(* C7: a successful GetHeaders response holds at most min(amount, 190)     *)
(* headers for any amount, 0 and negative values included; amount = 500,   *)
(* number = 10, skip = 0 on heights 0..20 returns the headers 10..20.      *)
C7_AtMostAmount ==
    (GotHeaders /\ resp.err = "") =>
        /\ Len(resp.objs) <= AmountAsked
        /\ (/\ store.heights = ScenarioChain
            /\ req.Number = 10 /\ req.Hash = EmptyText
            /\ req.Amount = 500 /\ req.Skip = 0)
                => ReturnedNumbers = [i \in 1..11 |-> 9 + i]

\* The same for requests with amount >= 1.
AtMostAmountFromOne ==
    (GotHeaders /\ resp.err = "" /\ req.Amount >= 1) =>
        /\ Len(resp.objs) <= AmountAsked
        /\ (/\ store.heights = ScenarioChain
            /\ req.Number = 10 /\ req.Hash = EmptyText
            /\ req.Amount = 500 /\ req.Skip = 0)
                => ReturnedNumbers = [i \in 1..11 |-> 9 + i]

OneOrigin ==
    \/ req.Number # 0 /\ req.Hash = EmptyText
    \/ req.Number = 0 /\ WellFormed(req.Hash)

OriginPresent == OriginNumber >= 0 /\ OriginNumber \in store.heights

(* C8: a GetHeaders request with a non-zero number and a non-empty hash    *)
(* returns a protocol error and no headers without consulting the store;   *)
(* a request whose single well-formed origin is absent from the store      *)
(* returns an empty response and no error; no request with exactly one     *)
(* well-formed origin returns an error.                                    *)
C8_OriginHandling ==
    GotHeaders =>
        /\ (req.Number # 0 /\ req.Hash # EmptyText)
               => (/\ resp.err = "cannot have both"
                   /\ resp.nil
                   /\ resp.objs = <<>>
                   /\ resp.reads = 0)
        /\ OneOrigin => (resp.err = "" /\ ~resp.nil)
        /\ (OneOrigin /\ ~OriginPresent) => resp.objs = <<>>

C8_Witness ==
    /\ GotHeaders
    /\ req.Number = 2
    /\ req.Hash = HashText(HashOf(1))
    /\ {1, 2} \subseteq store.heights
    /\ resp.err = "cannot have both"
    /\ resp.reads = 0

---------------------------------------------------------------------------
(* currentState (consensus/ibft/state.go): a record with the fields of the *)
(* struct.  A Go map is a function on the set of its keys.  A MessageReq   *)
(* is [Type, From, View, Digest]: From is what FromAddr() returns, View is *)
(* [Sequence, Round], Digest the hash of the block the message is about.   *)

EmptyMap == [k \in {} |-> {}]

MapPutIfAbsent(m, k, val) ==
    [x \in (DOMAIN m) \cup {k} |-> IF x \in DOMAIN m THEN m[x] ELSE val]

MapPut(m, k, val) == [x \in (DOMAIN m) \cup {k} |-> IF x = k THEN val ELSE m[x]]

NoBlock == "nil"

\* resetRoundMsgs: three fresh maps.
resetRoundMsgsAndLock(cs) ==
    [cs EXCEPT !.prepared = EmptyMap, !.committed = EmptyMap, !.roundMessages = EmptyMap,
               !.locked = FALSE]

resetRoundMsgs(cs) ==
    [cs EXCEPT !.prepared = EmptyMap, !.committed = EmptyMap, !.roundMessages = EmptyMap]

\* newState: the zero currentState with reset round messages.
newState ==
    resetRoundMsgs(
        [validators |-> <<>>, state |-> "AcceptState", block |-> NoBlock,
         proposer |-> ZeroAddress, view |-> [Sequence |-> 0, Round |-> 0],
         prepared |-> EmptyMap, committed |-> EmptyMap, roundMessages |-> EmptyMap,
         locked |-> FALSE, err |-> ""])

setView(cs, v) == [cs EXCEPT !.view = v]

setState(cs, st) == [cs EXCEPT !.state = st]

lock(cs) == [cs EXCEPT !.locked = TRUE]

unlock(cs) == [cs EXCEPT !.block = NoBlock, !.locked = FALSE]

\* NumValid: 2 * MinFaultyNodes()
NumValid(cs) == 2 * MinFaultyNodes(cs.validators)

\* addMessage: drop a message of a non-validator, else store it by type.
addMessageAnySender(cs, msg) ==
    LET addr == msg.From IN
    IF msg.Type = "Commit"
    THEN [cs EXCEPT !.committed = MapPut(cs.committed, addr, msg)]
    ELSE IF msg.Type = "Prepare"
         THEN [cs EXCEPT !.prepared = MapPut(cs.prepared, addr, msg)]
         ELSE IF msg.Type = "RoundChange"
              THEN LET round == msg.View.Round
                       bucket == IF round \in DOMAIN cs.roundMessages
                                 THEN cs.roundMessages[round]
                                 ELSE EmptyMap
                   IN  [cs EXCEPT !.roundMessages =
                           MapPut(cs.roundMessages, round, MapPut(bucket, addr, msg))]
              ELSE cs

addMessage(cs, msg) ==
    LET addr == msg.From IN
    IF ~Includes(cs.validators, addr)
    THEN cs
    ELSE IF msg.Type = "Commit"
         THEN [cs EXCEPT !.committed = MapPut(cs.committed, addr, msg)]
         ELSE IF msg.Type = "Prepare"
              THEN [cs EXCEPT !.prepared = MapPut(cs.prepared, addr, msg)]
              ELSE IF msg.Type = "RoundChange"
                   THEN LET round == msg.View.Round
                            bucket == IF round \in DOMAIN cs.roundMessages
                                      THEN cs.roundMessages[round]
                                      ELSE EmptyMap
                        IN  [cs EXCEPT !.roundMessages =
                                MapPut(cs.roundMessages, round, MapPut(bucket, addr, msg))]
                   ELSE cs

addPrepared(cs, msg) == IF msg.Type # "Prepare" THEN cs ELSE addMessage(cs, msg)

addCommitted(cs, msg) == IF msg.Type # "Commit" THEN cs ELSE addMessage(cs, msg)

\* AddRoundMessage: the state it leaves; its return value is AddRoundMessageSize.
AddRoundMessage(cs, msg) == IF msg.Type # "RoundChange" THEN cs ELSE addMessage(cs, msg)

numRounds(cs, round) ==
    IF round \in DOMAIN cs.roundMessages
    THEN Cardinality(DOMAIN cs.roundMessages[round])
    ELSE 0

\* The value AddRoundMessage returns: len(c.roundMessages[msg.View.Round])
\* after the message was added, the length of a missing (nil) map being 0.
AddRoundMessageSizeBefore(cs, msg) ==
    IF msg.Type # "RoundChange"
    THEN 0
    ELSE IF msg.View.Round \in DOMAIN cs.roundMessages
         THEN Cardinality(DOMAIN cs.roundMessages[msg.View.Round])
         ELSE 0

AddRoundMessageSize(cs, msg) ==
    IF msg.Type # "RoundChange"
    THEN 0
    ELSE LET after == addMessage(cs, msg) IN
         IF msg.View.Round \in DOMAIN after.roundMessages
         THEN Cardinality(DOMAIN after.roundMessages[msg.View.Round])
         ELSE 0

numPrepared(cs) == Cardinality(DOMAIN cs.prepared)

numCommitted(cs) == Cardinality(DOMAIN cs.committed)

\* getErr: the error slot is returned (getErrValue) and cleared.
getErrValue(cs) == cs.err

getErr(cs) == [cs EXCEPT !.err = ""]

\* currentState.CalcProposer: c.proposer = c.validators.CalcProposer(c.view.Round, last)
CalcProposerOf(cs, lastProposer) ==
    [cs EXCEPT !.proposer =
        CalcProposer(cs.validators, U64FromNat(cs.view.Round), lastProposer).addr]

\* cleanRound: delete(c.roundMessages, round)
cleanRoundAll(cs, round) == [cs EXCEPT !.roundMessages = EmptyMap]

cleanRound(cs, round) ==
    [cs EXCEPT !.roundMessages =
        [k \in (DOMAIN cs.roundMessages) \ {round} |-> cs.roundMessages[k]]]

(* maxRound.  The range over the map visits its keys in an order the       *)
(* runtime picks; order is that order.  acc is (maxRound, found) so far.   *)
maxRoundTurn(cs, k, acc) ==
    IF Cardinality(DOMAIN cs.roundMessages[k]) < MinFaultyNodes(cs.validators) + 1
    THEN acc
    ELSE IF acc.maxRound < k
         THEN [maxRound |-> k, found |-> TRUE]
         ELSE acc

RECURSIVE maxRoundLoop(_, _, _)
maxRoundLoop(cs, order, acc) ==
    IF order = <<>>
    THEN acc
    ELSE maxRoundLoop(cs, Tail(order), maxRoundTurn(cs, Head(order), acc))

maxRound(cs, order) == maxRoundLoop(cs, order, [maxRound |-> 0, found |-> FALSE])

---------------------------------------------------------------------------
(* The driver's use of the round state, from the design (section 4.3):     *)
(* the driver itself is not among the files modelled.                      *)

\* ValidateState: "when numCommitted >= 2f+1, transition to CommitState",
\* the threshold being NumValid() + 1.
CommitQuorum(cs) == numCommitted(cs) >= NumValid(cs) + 1

\* ValidateState: "when numPrepared >= 2f+1, lock the state".
PrepareQuorum(cs) == numPrepared(cs) >= NumValid(cs) + 1

\* CommitState, after the block is written: next height, round 0, unlock,
\* resetRoundMsgs, back to AcceptState.
AfterCommit(cs) ==
    setState(
        resetRoundMsgs(
            unlock(setView(cs, [Sequence |-> cs.view.Sequence + 1, Round |-> 0]))),
        "AcceptState")

---------------------------------------------------------------------------
(* SpecRound: one node's round state under every order of messages, with   *)
(* the driver accepting a proposal and committing on a quorum.             *)

MaxStored == 3
MaxWrites == 1
MaxMsgRound == 1

Digests == {"H1", "H2"}

RoundValidatorSets == {<<"A">>, <<"A", "B", "C", "D">>}

MsgTypes == {"Preprepare", "Prepare", "Commit", "RoundChange"}

Messages ==
    [Type : MsgTypes, From : Addrs \cup {Outsider},
     View : [Sequence : {1}, Round : 0..MaxMsgRound], Digest : Digests]

\* The messages a round state holds.
Stored(cs) ==
    numPrepared(cs) + numCommitted(cs)
        + Cardinality({<<r, a>> \in (0..MaxMsgRound) \X Addrs :
                           r \in DOMAIN cs.roundMessages
                               /\ a \in DOMAIN cs.roundMessages[r]})

InitRound ==
    /\ \E v \in RoundValidatorSets :
        c = [setView(newState, [Sequence |-> 1, Round |-> 0]) EXCEPT !.validators = v]
    /\ written = <<>>
    /\ VsetIdle
    /\ SyncIdle
    /\ IbftIdle

Running == Len(written) < MaxWrites

RoundAddPrepared ==
    /\ Running
    /\ Stored(c) < MaxStored
    /\ \E msg \in Messages : c' = addPrepared(c, msg)
    /\ UNCHANGED <<written, vsetVars, syncVars, ibftVars>>

RoundAddCommitted ==
    /\ Running
    /\ Stored(c) < MaxStored
    /\ \E msg \in Messages : c' = addCommitted(c, msg)
    /\ UNCHANGED <<written, vsetVars, syncVars, ibftVars>>

RoundAddRoundMessage ==
    /\ Running
    /\ Stored(c) < MaxStored
    /\ \E msg \in Messages : c' = AddRoundMessage(c, msg)
    /\ UNCHANGED <<written, vsetVars, syncVars, ibftVars>>

RoundReset ==
    /\ Running
    /\ c' = resetRoundMsgs(c)
    /\ UNCHANGED <<written, vsetVars, syncVars, ibftVars>>

\* AcceptState: a proposal becomes the pending block; on to ValidateState.
DriverAccept ==
    /\ Running
    /\ c.state = "AcceptState"
    /\ \E d \in Digests : c' = setState([c EXCEPT !.block = d], "ValidateState")
    /\ UNCHANGED <<written, vsetVars, syncVars, ibftVars>>

\* ValidateState on a commit quorum, then CommitState: the pending block is
\* written with the Commit messages at hand.
DriverCommit ==
    /\ Running
    /\ c.state = "ValidateState"
    /\ CommitQuorum(c)
    /\ written' = Append(written, [hash |-> c.block, view |-> c.view,
                                   validators |-> c.validators,
                                   committed |-> c.committed])
    /\ c' = AfterCommit(c)
    /\ UNCHANGED <<vsetVars, syncVars, ibftVars>>

NextRound ==
    \/ RoundAddPrepared
    \/ RoundAddCommitted
    \/ RoundAddRoundMessage
    \/ RoundReset
    \/ DriverAccept
    \/ DriverCommit

SpecRound == InitRound /\ [][NextRound]_vars

\* The validators that contributed a Commit message for block w in its view.
Committers(w) ==
    {a \in DOMAIN w.committed :
        /\ Includes(w.validators, a)
        /\ w.committed[a].Type = "Commit"
        /\ w.committed[a].Digest = w.hash
        /\ w.committed[a].View = w.view}

(* C2: a block with hash H is written only when at least 2f+1 distinct     *)
(* validator addresses have each contributed a Commit message for H in the *)
(* current view; Commits for another hash or view, repeated Commits of one *)
(* sender and Commits of non-validators do not count.                      *)
C2_QuorumDiscipline ==
    \A i \in 1..Len(written) :
        Cardinality(Committers(written[i]))
            >= 2 * MinFaultyNodes(written[i].validators) + 1

\* Repeated Commits of one sender and Commits of non-validators do not
\* count: a block is written on Commit messages of 2f+1 distinct validators.
DistinctValidatorQuorum ==
    \A i \in 1..Len(written) :
        Cardinality({a \in DOMAIN written[i].committed :
                         Includes(written[i].validators, a)})
            >= 2 * MinFaultyNodes(written[i].validators) + 1

---------------------------------------------------------------------------
(* SpecIbft: the validators of one network run height 1 of the round       *)
(* protocol.  Every honest validator owns a currentState (state.go) and is *)
(* driven as the design describes (section 4.3): the driver is not among   *)
(* the files modelled.  The driver here hands a Prepare or Commit to the   *)
(* round state only when it is for the node's view and pending block, the  *)
(* most the design allows it to check.  A Byzantine validator may send any *)
(* message under its own address at any time.  net is every message        *)
(* broadcast so far; delivery is at least once, in any order.              *)

MaxIbftRound == 1

(* The networks: the validator set, its Byzantine members (at most         *)
(* MinFaultyNodes() of them) and the honest validators that stay silent    *)
(* throughout (every message of theirs is still on its way).               *)
IbftConfigs ==
    {cfg \in {[validators |-> <<"A", "B">>, byzantine |-> {}, down |-> {}],
              [validators |-> <<"A", "B", "C">>, byzantine |-> {}, down |-> {}],
              [validators |-> <<"A", "B", "C", "D">>, byzantine |-> {"A"},
               down |-> {"D"}]} :
        Cardinality(cfg.byzantine) <= MinFaultyNodes(cfg.validators)}

\* The block an unlocked proposer builds in a round: another one each round.
BlockOf(round) == IF round = 0 THEN "H1" ELSE "H2"

Msg(type, from, view, digest) ==
    [Type |-> type, From |-> from, View |-> view, Digest |-> digest]

Honest == DOMAIN nodes

Byzantine(cs) == Range(cs.validators) \ Honest

\* What a node may be handed: the broadcasts, and anything of a Byzantine
\* (a RoundChange carries no payload, so none of its forms names a block).
Deliverable(cs) ==
    net \cup {m \in [Type : MsgTypes, From : Byzantine(cs),
                      View : [Sequence : {1}, Round : 0..MaxIbftRound],
                      Digest : Digests \cup {NoBlock}] :
                 m.Type = "RoundChange" <=> m.Digest = NoBlock}

\* c.CalcProposer(lastProposer) at the first height: no last proposer.
ProposerOf(cs) ==
    CalcProposer(cs.validators, U64FromNat(cs.view.Round), ZeroAddress).addr

(* ValidateState after a message was added, for the node at address a.     *)
(* On a prepare quorum the node locks and broadcasts its Commit (counted   *)
(* as its own); on a commit quorum it moves to CommitState and writes the  *)
(* pending block.  The result is the node and what it broadcast.           *)
ValidateStep(a, n) ==
    LET commit == Msg("Commit", a, n.cs.view, n.cs.block)
        locks == PrepareQuorum(n.cs) /\ ~n.cs.locked
        cs1 == IF locks THEN addCommitted(lock(n.cs), commit) ELSE n.cs
        out == IF locks THEN {commit} ELSE {}
    IN  IF CommitQuorum(cs1)
        THEN [node |-> [n EXCEPT !.cs = AfterCommit(cs1), !.wrote = cs1.block],
              out |-> out]
        ELSE [node |-> [n EXCEPT !.cs = cs1], out |-> out]

\* Entering ValidateState with a proposal: broadcast a Prepare, count it.
EnterValidate(a, n, digest) ==
    LET prepare == Msg("Prepare", a, n.cs.view, digest)
        cs1 == addPrepared(setState([n.cs EXCEPT !.block = digest], "ValidateState"),
                           prepare)
        v == ValidateStep(a, [n EXCEPT !.cs = cs1])
    IN  [node |-> v.node, out |-> {prepare} \cup v.out]

InitIbft ==
    /\ \E cfg \in IbftConfigs :
        nodes = [a \in Range(cfg.validators) \ cfg.byzantine |->
                    [cs |-> [setView(newState, [Sequence |-> 1, Round |-> 0])
                                EXCEPT !.validators = cfg.validators],
                     wrote |-> NoBlock,
                     target |-> 0,
                     down |-> a \in cfg.down]]
    /\ net = {}
    /\ VsetIdle
    /\ SyncIdle
    /\ RoundIdle

\* The node is running and has not yet written the block of this height.
AtHeight(a) == nodes[a].wrote = NoBlock /\ ~nodes[a].down

\* AcceptState, the node is the proposer: build (or repeat the locked) block.
IbftPropose ==
    \E a \in Honest :
        LET n == nodes[a]
            digest == IF n.cs.locked THEN n.cs.block ELSE BlockOf(n.cs.view.Round)
            e == EnterValidate(a, n, digest)
        IN  /\ AtHeight(a)
            /\ n.cs.state = "AcceptState"
            /\ ProposerOf(n.cs) = a
            /\ nodes' = [nodes EXCEPT ![a] = e.node]
            /\ net' = net \cup {Msg("Preprepare", a, n.cs.view, digest)} \cup e.out
            /\ UNCHANGED <<vsetVars, syncVars, roundVars>>

\* AcceptState, a Preprepare of the expected proposer for the current view.
IbftPreprepare ==
    \E a \in Honest :
        \E m \in Deliverable(nodes[a].cs) :
            LET n == nodes[a]
                e == EnterValidate(a, n, m.Digest)
            IN  /\ AtHeight(a)
                /\ n.cs.state = "AcceptState"
                /\ m.Type = "Preprepare"
                /\ m.View = n.cs.view
                /\ m.From = ProposerOf(n.cs)
                /\ m.From # a
                /\ n.cs.locked => m.Digest = n.cs.block
                /\ nodes' = [nodes EXCEPT ![a] = e.node]
                /\ net' = net \cup e.out
                /\ UNCHANGED <<vsetVars, syncVars, roundVars>>

\* ValidateState, a Prepare or a Commit for the view and the pending block.
IbftVote ==
    \E a \in Honest :
        \E m \in Deliverable(nodes[a].cs) :
            LET n == nodes[a]
                cs1 == IF m.Type = "Prepare"
                       THEN addPrepared(n.cs, m)
                       ELSE addCommitted(n.cs, m)
                v == ValidateStep(a, [n EXCEPT !.cs = cs1])
            IN  /\ AtHeight(a)
                /\ n.cs.state = "ValidateState"
                /\ m.Type \in {"Prepare", "Commit"}
                /\ m.View = n.cs.view
                /\ m.Digest = n.cs.block
                /\ nodes' = [nodes EXCEPT ![a] = v.node]
                /\ net' = net \cup v.out
                /\ UNCHANGED <<vsetVars, syncVars, roundVars>>

\* The round timer fires: RoundChange for round + 1, RoundChangeState.
IbftTimeout ==
    \E a \in Honest :
        LET n == nodes[a]
            next == n.cs.view.Round + 1
            rc == Msg("RoundChange", a, [Sequence |-> 1, Round |-> next], NoBlock)
        IN  /\ AtHeight(a)
            /\ n.cs.state \in {"AcceptState", "ValidateState"}
            /\ next <= MaxIbftRound
            /\ nodes' = [nodes EXCEPT ![a] =
                            [n EXCEPT !.cs = AddRoundMessage(
                                                 setState(n.cs, "RoundChangeState"), rc),
                                      !.target = next]]
            /\ net' = net \cup {rc}
            /\ UNCHANGED <<vsetVars, syncVars, roundVars>>

\* RoundChangeState: collect a RoundChange.
IbftRoundChange ==
    \E a \in Honest :
        \E m \in Deliverable(nodes[a].cs) :
            LET n == nodes[a] IN
            /\ AtHeight(a)
            /\ n.cs.state = "RoundChangeState"
            /\ m.Type = "RoundChange"
            /\ m.View.Sequence = n.cs.view.Sequence
            /\ AddRoundMessage(n.cs, m) # n.cs
            /\ nodes' = [nodes EXCEPT ![a].cs = AddRoundMessage(n.cs, m)]
            /\ UNCHANGED <<net, vsetVars, syncVars, roundVars>>

\* RoundChangeState, 2f+1 RoundChange messages for the target round: the
\* view moves to it, the round messages are reset, back to AcceptState.
IbftNewRound ==
    \E a \in Honest :
        LET n == nodes[a] IN
        /\ AtHeight(a)
        /\ n.cs.state = "RoundChangeState"
        /\ numRounds(n.cs, n.target) >= NumValid(n.cs) + 1
        /\ nodes' = [nodes EXCEPT ![a].cs =
                        setState(
                            resetRoundMsgs(
                                setView(n.cs, [Sequence |-> n.cs.view.Sequence,
                                               Round |-> n.target])),
                            "AcceptState")]
        /\ UNCHANGED <<net, vsetVars, syncVars, roundVars>>

NextIbft ==
    \/ IbftPropose
    \/ IbftPreprepare
    \/ IbftVote
    \/ IbftTimeout
    \/ IbftRoundChange
    \/ IbftNewRound

SpecIbft == InitIbft /\ [][NextIbft]_vars

\* The validator set the network runs with.
NetValidators == nodes[CHOOSE a \in Honest : TRUE].cs.validators

(* C1: with at most f = MinFaultyNodes() Byzantine validators, two honest  *)
(* nodes that each commit a block at the same height commit the same       *)
(* block, for every validator-set size and not only n = 3f+1.              *)
C1_Agreement ==
    \A a, b \in Honest :
        (nodes[a].wrote # NoBlock /\ nodes[b].wrote # NoBlock)
            => nodes[a].wrote = nodes[b].wrote

\* The same for the networks of n = 3f+1 validators only.
AgreementAt3fPlus1 ==
    Len(NetValidators) = 3 * MinFaultyNodes(NetValidators) + 1 => C1_Agreement

(* SpecLock: one validator of four, B or C, under every sequence of       *)
(* timeouts and incoming messages: whatever two of the others send, at any *)
(* time, D staying silent.  The node takes the steps of SpecIbft.          *)
InitLock ==
    /\ \E self \in {"B", "C"} :
        nodes = [a \in {self, "D"} |->
                    [cs |-> [setView(newState, [Sequence |-> 1, Round |-> 0])
                                EXCEPT !.validators = <<"A", "B", "C", "D">>],
                     wrote |-> NoBlock,
                     target |-> 0,
                     down |-> a = "D"]]
    /\ net = {}
    /\ VsetIdle
    /\ SyncIdle
    /\ RoundIdle

SpecLock == InitLock /\ [][NextIbft]_vars

\* One step of the node at address a that holds a lock.
LockKept(a) ==
    (nodes[a].cs.locked /\ nodes[a].wrote = NoBlock) =>
        IF nodes'[a].wrote = NoBlock
        THEN /\ nodes'[a].cs.locked
             /\ nodes'[a].cs.block = nodes[a].cs.block
             /\ nodes'[a].cs.view.Sequence = nodes[a].cs.view.Sequence
        ELSE /\ nodes'[a].wrote = nodes[a].cs.block
             /\ ~nodes'[a].cs.locked
             /\ nodes'[a].cs.block = NoBlock
             /\ nodes'[a].cs.view.Sequence = nodes[a].cs.view.Sequence + 1

---------------------------------------------------------------------------
(* SpecQuorum: the fault bound and the vote tallies of a round state for   *)
(* every validator set of up to MaxQuorumSet distinct addresses, under     *)
(* Prepare and Commit messages of any senders.                             *)

MaxQuorumSet == 6

QuorumAddrs == <<"A", "B", "C", "D", "E", "F", "G", "H">>

InitQuorum ==
    /\ \E n \in 0..MaxQuorumSet :
        c = [setView(newState, [Sequence |-> 1, Round |-> 0])
                EXCEPT !.validators = SubSeq(QuorumAddrs, 1, n)]
    /\ written = <<>>
    /\ VsetIdle
    /\ SyncIdle
    /\ IbftIdle

\* c.validators.MinFaultyNodes() and c.NumValid()
QuorumNumValid ==
    /\ outcome.op = "none"
    /\ outcome' = [op |-> "NumValid", panic |-> FALSE,
                   f |-> MinFaultyNodes(c.validators), numValid |-> NumValid(c)]
    /\ UNCHANGED <<validators, cpIn, syncVars, roundVars, ibftVars>>

\* c.addPrepared(msg) for a Prepare of any sender
QuorumAddPrepared ==
    /\ \E a \in Range(c.validators) \cup {Outsider} :
        c' = addPrepared(c, Msg("Prepare", a, c.view, "H1"))
    /\ UNCHANGED <<written, vsetVars, syncVars, ibftVars>>

\* c.addCommitted(msg) for a Commit of any sender
QuorumAddCommitted ==
    /\ \E a \in Range(c.validators) \cup {Outsider} :
        c' = addCommitted(c, Msg("Commit", a, c.view, "H1"))
    /\ UNCHANGED <<written, vsetVars, syncVars, ibftVars>>

NextQuorum == QuorumNumValid \/ QuorumAddPrepared \/ QuorumAddCommitted

SpecQuorum == InitQuorum /\ [][NextQuorum]_vars

(* C13: for a validator set of n >= 1 addresses MinFaultyNodes() is        *)
(* floor((n-1)/3), that is 0 for n = 1, 2, 3 and 1 for n = 4, 5, 6;        *)
(* NumValid() is twice that; the threshold NumValid() + 1 is 3 at n = 4,   *)
(* 1 at n = 1 and never larger than n.                                     *)
C13_FaultBound ==
    LET n == Len(c.validators) IN
    (outcome.op = "NumValid" /\ n >= 1) =>
        /\ outcome.f = (n - 1) \div 3
        /\ n \in 1..3 => outcome.f = 0
        /\ n \in 4..6 => outcome.f = 1
        /\ outcome.numValid = 2 * outcome.f
        /\ n = 4 => outcome.numValid + 1 = 3
        /\ n = 1 => outcome.numValid + 1 = 1
        /\ outcome.numValid + 1 <= n

C13_Witness ==
    /\ outcome.op = "NumValid"
    /\ Len(c.validators) = 6
    /\ outcome.f = 1
    /\ outcome.numValid = 2

\* The senders of the Prepare and of the Commit messages held are two
\* quorums: NumValid() + 1 validators each.
TwoQuorums ==
    /\ Len(c.validators) >= 1
    /\ numPrepared(c) = NumValid(c) + 1
    /\ numCommitted(c) = NumValid(c) + 1

(* C20: for every validator-set size n >= 1, two sets of NumValid() + 1    *)
(* distinct validators have at least f + 1 members in common, f being      *)
(* MinFaultyNodes(); two quorums are never disjoint.                       *)
C20_QuorumIntersection ==
    TwoQuorums =>
        Cardinality((DOMAIN c.prepared) \cap (DOMAIN c.committed))
            >= MinFaultyNodes(c.validators) + 1

\* The same for the sets of n = 3f+1 validators only.
QuorumIntersectionAt3fPlus1 ==
    Len(c.validators) = 3 * MinFaultyNodes(c.validators) + 1 => C20_QuorumIntersection

---------------------------------------------------------------------------
(* SpecCalls: the operations of a round state, one call at a time.  Each   *)
(* call leaves in outcome what was called, with which argument, on which   *)
(* state (before) and what it returned; CallReturn then hands the state to *)
(* the next call.  The calls that store or drop messages are followed      *)
(* through every sequence of them; the calls on the other fields are       *)
(* followed for one call from every state those sequences reach.           *)

MaxHeld == 2
\* The rounds the messages are for.
CallRounds == {0, 1}

CallSenders == {"A", "B", Outsider}

CallValidatorSets == {<<"A">>, <<"A", "B", "C">>, <<"A", "B", "C", "D">>}

CallViews == [Sequence : {1}, Round : CallRounds]

CallMessages == [Type : MsgTypes, From : CallSenders, View : CallViews, Digest : Digests]

CallStates == {"AcceptState", "RoundChangeState", "ValidateState", "CommitState", "SyncState"}

\* The entries the three maps hold.
Held(cs) ==
    numPrepared(cs) + numCommitted(cs)
        + Cardinality({ra \in (DOMAIN cs.roundMessages) \X CallSenders :
                           ra[2] \in DOMAIN cs.roundMessages[ra[1]]})

\* Every order in which a range over a map with keys S may visit them.
Orders(S) == {q \in [1..Cardinality(S) -> S] : \A k \in S : \E i \in DOMAIN q : q[i] = k}

\* A round state as created, and one in the middle of a round: locked on a
\* pending block, a proposer selected, an error waiting to be read.
InitCalls ==
    /\ \E v \in CallValidatorSets :
        \/ c = [setView(newState, [Sequence |-> 1, Round |-> 0]) EXCEPT !.validators = v]
        \/ c = [newState EXCEPT !.validators = v, !.view = [Sequence |-> 1, Round |-> 1],
                                !.state = "ValidateState", !.block = "H1",
                                !.proposer = "B", !.locked = TRUE, !.err = "failed"]
    /\ written = <<>>
    /\ VsetIdle
    /\ SyncIdle
    /\ IbftIdle

Called(op, arg, ret) ==
    outcome' = [op |-> op, panic |-> FALSE, arg |-> arg, ret |-> ret, before |-> c]

Idle == outcome.op = "none"

CallAddMessage ==
    /\ Idle
    /\ Held(c) < MaxHeld
    /\ \E msg \in CallMessages :
        /\ c' = addMessage(c, msg)
        /\ Called("addMessage", msg, 0)
    /\ UNCHANGED <<validators, cpIn, written, syncVars, ibftVars>>

CallAddPrepared ==
    /\ Idle
    /\ Held(c) < MaxHeld
    /\ \E msg \in CallMessages :
        /\ c' = addPrepared(c, msg)
        /\ Called("addPrepared", msg, 0)
    /\ UNCHANGED <<validators, cpIn, written, syncVars, ibftVars>>

CallAddCommitted ==
    /\ Idle
    /\ Held(c) < MaxHeld
    /\ \E msg \in CallMessages :
        /\ c' = addCommitted(c, msg)
        /\ Called("addCommitted", msg, 0)
    /\ UNCHANGED <<validators, cpIn, written, syncVars, ibftVars>>

CallAddRoundMessage ==
    /\ Idle
    /\ Held(c) < MaxHeld
    /\ \E msg \in CallMessages :
        /\ c' = AddRoundMessage(c, msg)
        /\ Called("AddRoundMessage", msg, AddRoundMessageSize(c, msg))
    /\ UNCHANGED <<validators, cpIn, written, syncVars, ibftVars>>

CallCleanRound ==
    /\ Idle
    /\ \E round \in CallRounds :
        /\ c' = cleanRound(c, round)
        /\ Called("cleanRound", round, 0)
    /\ UNCHANGED <<validators, cpIn, written, syncVars, ibftVars>>

CallResetRoundMsgs ==
    /\ Idle
    /\ c' = resetRoundMsgs(c)
    /\ Called("resetRoundMsgs", 0, 0)
    /\ UNCHANGED <<validators, cpIn, written, syncVars, ibftVars>>

CallMaxRound ==
    /\ Idle
    /\ \E order \in Orders(DOMAIN c.roundMessages) :
        Called("maxRound", order, maxRound(c, order))
    /\ UNCHANGED <<validators, cpIn, roundVars, syncVars, ibftVars>>

CallSetView ==
    /\ Idle
    /\ \E v \in CallViews :
        /\ c' = setView(c, v)
        /\ Called("setView", v, 0)
    /\ UNCHANGED <<validators, cpIn, written, syncVars, ibftVars>>

CallSetState ==
    /\ Idle
    /\ \E st \in CallStates :
        /\ c' = setState(c, st)
        /\ Called("setState", st, 0)
    /\ UNCHANGED <<validators, cpIn, written, syncVars, ibftVars>>

CallLock ==
    /\ Idle
    /\ c' = lock(c)
    /\ Called("lock", 0, 0)
    /\ UNCHANGED <<validators, cpIn, written, syncVars, ibftVars>>

CallUnlock ==
    /\ Idle
    /\ c' = unlock(c)
    /\ Called("unlock", 0, 0)
    /\ UNCHANGED <<validators, cpIn, written, syncVars, ibftVars>>

CallGetErr ==
    /\ Idle
    /\ c' = getErr(c)
    /\ Called("getErr", 0, getErrValue(c))
    /\ UNCHANGED <<validators, cpIn, written, syncVars, ibftVars>>

CallCalcProposer ==
    /\ Idle
    /\ \E last \in {ZeroAddress, "A", Outsider} :
        /\ c' = CalcProposerOf(c, last)
        /\ Called("CalcProposer", last, 0)
    /\ UNCHANGED <<validators, cpIn, written, syncVars, ibftVars>>

\* The calls that change or read the three maps.
MapCalls ==
    {"addMessage", "addPrepared", "addCommitted", "AddRoundMessage",
     "cleanRound", "resetRoundMsgs", "maxRound"}

CallReturn ==
    /\ outcome.op \in MapCalls
    /\ outcome' = NoOutcome
    /\ UNCHANGED <<validators, cpIn, roundVars, syncVars, ibftVars>>

NextCalls ==
    \/ CallAddMessage
    \/ CallAddPrepared
    \/ CallAddCommitted
    \/ CallAddRoundMessage
    \/ CallCleanRound
    \/ CallResetRoundMsgs
    \/ CallMaxRound
    \/ CallSetView
    \/ CallSetState
    \/ CallLock
    \/ CallUnlock
    \/ CallGetErr
    \/ CallCalcProposer
    \/ CallReturn

SpecCalls == InitCalls /\ [][NextCalls]_vars

\* The rounds of a round state that hold at least f+1 RoundChange messages.
EnoughRounds(cs) ==
    {r \in DOMAIN cs.roundMessages : numRounds(cs, r) >= MinFaultyNodes(cs.validators) + 1}

Greatest(S) == CHOOSE r \in S : \A q \in S : q <= r

(* C14: when some round (round 0 included) holds at least f+1 RoundChange  *)
(* messages, maxRound returns the greatest such round with found = true;   *)
(* when no round does, it returns found = false.                           *)
C14_MaxRound ==
    outcome.op = "maxRound" =>
        IF EnoughRounds(outcome.before) # {}
        THEN /\ outcome.ret.found
             /\ outcome.ret.maxRound = Greatest(EnoughRounds(outcome.before))
        ELSE ~outcome.ret.found

\* The same for the rounds from 1 on: what maxRound does return.
MaxRoundFromOne ==
    outcome.op = "maxRound" =>
        IF EnoughRounds(outcome.before) \ {0} # {}
        THEN /\ outcome.ret.found
             /\ outcome.ret.maxRound = Greatest(EnoughRounds(outcome.before))
        ELSE ~outcome.ret.found /\ outcome.ret.maxRound = 0

\* The calls that hand a message to the round state.
MessageCalls == {"addMessage", "addPrepared", "addCommitted", "AddRoundMessage"}

\* The three maps of two round states are the same, key by key.
SameMaps(cs, ds) ==
    /\ cs.prepared = ds.prepared
    /\ cs.committed = ds.committed
    /\ cs.roundMessages = ds.roundMessages

(* C15: every key of prepared, of committed and of each roundMessages[r]   *)
(* is an address of the validator set, after any sequence of calls; a      *)
(* message of a non-validator leaves the three maps as they were, with no  *)
(* empty bucket created for its round.                                     *)
C15_ValidatorsOnly ==
    /\ DOMAIN c.prepared \subseteq Range(c.validators)
    /\ DOMAIN c.committed \subseteq Range(c.validators)
    /\ \A r \in DOMAIN c.roundMessages :
        DOMAIN c.roundMessages[r] \subseteq Range(c.validators)
    /\ (outcome.op \in MessageCalls
            /\ outcome.arg.From \notin Range(outcome.before.validators)) =>
        /\ SameMaps(c, outcome.before)
        /\ DOMAIN c.roundMessages = DOMAIN outcome.before.roundMessages

C15_Witness ==
    /\ outcome.op = "AddRoundMessage"
    /\ outcome.arg.Type = "RoundChange"
    /\ outcome.arg.From = Outsider
    /\ outcome.arg.View.Round = 1
    /\ DOMAIN c.roundMessages = {0}
    /\ SameMaps(c, outcome.before)

\* The map a message of a validator goes to.
Bucket(cs, msg) ==
    IF msg.Type = "Prepare"
    THEN cs.prepared
    ELSE IF msg.Type = "Commit"
         THEN cs.committed
         ELSE IF msg.View.Round \in DOMAIN cs.roundMessages
              THEN cs.roundMessages[msg.View.Round]
              ELSE EmptyMap

\* The call stores its message: a validator's, of a type the call takes.
Taken ==
    /\ outcome.op \in MessageCalls
    /\ outcome.arg.From \in Range(outcome.before.validators)
    /\ \/ outcome.op = "addMessage" /\ outcome.arg.Type \in {"Prepare", "Commit", "RoundChange"}
       \/ outcome.op = "addPrepared" /\ outcome.arg.Type = "Prepare"
       \/ outcome.op = "addCommitted" /\ outcome.arg.Type = "Commit"
       \/ outcome.op = "AddRoundMessage" /\ outcome.arg.Type = "RoundChange"

Tallies(cs) ==
    [prepared |-> numPrepared(cs), committed |-> numCommitted(cs),
     rounds |-> [r \in CallRounds |-> numRounds(cs, r)]]

(* C16: a sender's second Prepare, Commit or RoundChange (for one round)   *)
(* leaves numPrepared, numCommitted and numRounds as they were and the     *)
(* bucket holds the sender's latest message; the three tallies never       *)
(* exceed the size of the validator set; and the tallies after the         *)
(* messages of two distinct senders are the same in either order.          *)
C16_IdempotentTallies ==
    /\ numPrepared(c) <= Len(c.validators)
    /\ numCommitted(c) <= Len(c.validators)
    /\ \A r \in CallRounds : numRounds(c, r) <= Len(c.validators)
    /\ Taken =>
        /\ Bucket(c, outcome.arg)[outcome.arg.From] = outcome.arg
        /\ outcome.arg.From \in DOMAIN Bucket(outcome.before, outcome.arg)
               => Tallies(c) = Tallies(outcome.before)
        /\ \A other \in CallMessages :
               other.From # outcome.arg.From =>
                   Tallies(addMessage(c, other))
                       = Tallies(addMessage(addMessage(outcome.before, other), outcome.arg))

\* The only validator sends a second, different Prepare.
C16_Witness ==
    /\ outcome.op = "addPrepared"
    /\ Taken
    /\ c.validators = <<"A">>
    /\ "A" \in DOMAIN outcome.before.prepared
    /\ outcome.before.prepared["A"] # outcome.arg
    /\ c.prepared["A"] = outcome.arg
    /\ numPrepared(c) = 1

\* The round buckets other than round r are the same in both states.
SameOtherRounds(cs, ds, r) ==
    /\ (DOMAIN cs.roundMessages) \ {r} = (DOMAIN ds.roundMessages) \ {r}
    /\ \A k \in (DOMAIN cs.roundMessages) \ {r} : cs.roundMessages[k] = ds.roundMessages[k]

(* C17: AddRoundMessage with a RoundChange of a validator stores it under  *)
(* roundMessages[round][from] and returns numRounds(round) as it is after  *)
(* the call; with any other type it returns 0 and leaves the three maps as *)
(* they were.  addPrepared stores Prepare messages only and addCommitted   *)
(* Commit messages only; a call with another type changes nothing.         *)
C17_TypeFiltering ==
    LET msg == outcome.arg
        b == outcome.before
    IN  /\ outcome.op = "AddRoundMessage" =>
            IF msg.Type = "RoundChange"
            THEN msg.From \in Range(b.validators) =>
                    /\ c.roundMessages[msg.View.Round][msg.From] = msg
                    /\ outcome.ret = numRounds(c, msg.View.Round)
                    /\ outcome.ret = Cardinality(DOMAIN Bucket(b, msg) \cup {msg.From})
                    /\ c.prepared = b.prepared
                    /\ c.committed = b.committed
                    /\ SameOtherRounds(c, b, msg.View.Round)
            ELSE outcome.ret = 0 /\ SameMaps(c, b)
        /\ outcome.op = "addPrepared" =>
            IF msg.Type = "Prepare"
            THEN msg.From \in Range(b.validators) =>
                    /\ c.prepared[msg.From] = msg
                    /\ c.committed = b.committed
                    /\ c.roundMessages = b.roundMessages
            ELSE SameMaps(c, b)
        /\ outcome.op = "addCommitted" =>
            IF msg.Type = "Commit"
            THEN msg.From \in Range(b.validators) =>
                    /\ c.committed[msg.From] = msg
                    /\ c.prepared = b.prepared
                    /\ c.roundMessages = b.roundMessages
            ELSE SameMaps(c, b)
        /\ \A a \in DOMAIN c.prepared : c.prepared[a].Type = "Prepare"
        /\ \A a \in DOMAIN c.committed : c.committed[a].Type = "Commit"
        /\ \A r \in DOMAIN c.roundMessages : \A a \in DOMAIN c.roundMessages[r] :
               /\ c.roundMessages[r][a].Type = "RoundChange"
               /\ c.roundMessages[r][a].View.Round = r

\* The second validator's RoundChange for round 1: the call returns 2.
C17_Witness ==
    /\ outcome.op = "AddRoundMessage"
    /\ outcome.arg.Type = "RoundChange"
    /\ outcome.arg.From = "B"
    /\ outcome.arg.View.Round = 1
    /\ 1 \in DOMAIN outcome.before.roundMessages
    /\ "A" \in DOMAIN outcome.before.roundMessages[1]
    /\ outcome.ret = 2

\* Every entry of the map m is still an entry of the map n (a newer
\* message may have replaced it).
KeepsKeys(m, n) == DOMAIN m \subseteq DOMAIN n

KeepsRounds(cs, ds) ==
    \A r \in DOMAIN cs.roundMessages :
        /\ r \in DOMAIN ds.roundMessages
        /\ KeepsKeys(cs.roundMessages[r], ds.roundMessages[r])

\* The fields of a round state other than its three maps are the same.
SameFields(cs, ds) ==
    /\ cs.validators = ds.validators
    /\ cs.state = ds.state
    /\ cs.block = ds.block
    /\ cs.proposer = ds.proposer
    /\ cs.view = ds.view
    /\ cs.locked = ds.locked

(* C18: prepared and committed lose entries only in resetRoundMsgs;        *)
(* roundMessages loses entries only in resetRoundMsgs and in cleanRound(r),*)
(* which removes the bucket of round r and nothing else; setView, setState,*)
(* lock, unlock, getErr and CalcProposer leave the three maps as they      *)
(* were; resetRoundMsgs empties the three maps and leaves view, state tag, *)
(* proposer, pending block, locked flag and validator set as they were.    *)
C18_FrameEffects ==
    LET b == outcome.before IN
    outcome.op # "none" =>
        /\ outcome.op # "resetRoundMsgs" =>
            /\ KeepsKeys(b.prepared, c.prepared)
            /\ KeepsKeys(b.committed, c.committed)
        /\ outcome.op \notin {"resetRoundMsgs", "cleanRound"} => KeepsRounds(b, c)
        /\ outcome.op \notin MessageCalls \cup {"resetRoundMsgs", "cleanRound"} =>
            SameMaps(c, b)
        /\ outcome.op = "cleanRound" =>
            /\ outcome.arg \notin DOMAIN c.roundMessages
            /\ SameOtherRounds(c, b, outcome.arg)
            /\ c.prepared = b.prepared
            /\ c.committed = b.committed
            /\ SameFields(c, b)
        /\ outcome.op = "resetRoundMsgs" =>
            /\ DOMAIN c.prepared = {}
            /\ DOMAIN c.committed = {}
            /\ DOMAIN c.roundMessages = {}
            /\ SameFields(c, b)

\* cleanRound(0) on a locked round state that holds rounds 0 and 1.
C18_Witness ==
    /\ outcome.op = "cleanRound"
    /\ outcome.arg = 0
    /\ DOMAIN outcome.before.roundMessages = {0, 1}
    /\ DOMAIN c.roundMessages = {1}
    /\ c.locked
    /\ c.block = "H1"

---------------------------------------------------------------------------
(* SpecDev: the dev sealer.  StartSeal starts a goroutine that runs        *)
(* Dev.run; frame.pc[g] is where goroutine g stands:                       *)
(*   "select"    waiting on notifyCh and closeCh                           *)
(*   "header"    notified, about to read d.blockchain.Header()             *)
(*   "do"        in d.do(header), up to the call of WriteBlocks            *)
(*   "returned"  run has returned                                          *)
(* frame.parent[g] is the header goroutine g read.  store.chain is the     *)
(* canonical chain, its last block the head.  written lists every block    *)
(* handed to WriteBlocks with the head at that moment.                     *)

MaxSealers == 2
MaxDevHeight == 3

Genesis == [Number |-> 0, Hash |-> <<0>>, ParentHash |-> <<>>]

\* blockchain.Header(): the current head
Header(st) == st.chain[Len(st.chain)]

\* d.do up to BuildBlock: the child of parent.  The hash covers the
\* header, whose timestamp and state root depend on the goroutine's run.
BuildBlock(parent, g) ==
    [Number |-> parent.Number + 1,
     Hash |-> <<parent.Number + 1, g>> \o parent.Hash,
     ParentHash |-> parent.Hash]

\* The block continues the chain at its head.
Extends(block, head) == block.Number = head.Number + 1 /\ block.ParentHash = head.Hash

InitDev ==
    /\ store = [chain |-> <<Genesis>>]
    /\ frame = [pc |-> <<>>, parent |-> <<>>, closed |-> FALSE, panic |-> FALSE]
    /\ written = <<>>
    /\ req = <<>>
    /\ resp = <<>>
    /\ c = <<>>
    /\ VsetIdle
    /\ IbftIdle

Alive == ~frame.panic /\ Len(store.chain) <= MaxDevHeight

\* StartSeal: go d.run()
DevStartSeal ==
    /\ Alive
    /\ Len(frame.pc) < MaxSealers
    /\ frame' = [frame EXCEPT !.pc = Append(@, "select"), !.parent = Append(@, Genesis)]
    /\ UNCHANGED <<store, written, req, resp, c, vsetVars, ibftVars>>

\* run: the select receives from notifyCh (the pool has a new transaction).
DevNotified ==
    /\ Alive
    /\ \E g \in DOMAIN frame.pc :
        /\ frame.pc[g] = "select"
        /\ frame' = [frame EXCEPT !.pc[g] = "header"]
    /\ UNCHANGED <<store, written, req, resp, c, vsetVars, ibftVars>>

\* run: the select receives from the closed closeCh and run returns.
DevClosed ==
    /\ Alive
    /\ frame.closed
    /\ \E g \in DOMAIN frame.pc :
        /\ frame.pc[g] = "select"
        /\ frame' = [frame EXCEPT !.pc[g] = "returned"]
    /\ UNCHANGED <<store, written, req, resp, c, vsetVars, ibftVars>>

\* run: header := d.blockchain.Header()
DevHeader ==
    /\ Alive
    /\ \E g \in DOMAIN frame.pc :
        /\ frame.pc[g] = "header"
        /\ frame' = [frame EXCEPT !.pc[g] = "do", !.parent[g] = Header(store)]
    /\ UNCHANGED <<store, written, req, resp, c, vsetVars, ibftVars>>

(* do(parent).  BeginTxn may fail: do returns the error, run ignores it    *)
(* and waits again.  Else the block is built and handed to WriteBlocks.    *)
(* WriteBlocks appends a block that continues the chain; of a block that   *)
(* does not, it may return an error, on which do panics, or take it        *)
(* without moving the head.                                                *)
DevDo ==
    /\ Alive
    /\ \E g \in DOMAIN frame.pc :
        /\ frame.pc[g] = "do"
        /\ \/ /\ frame' = [frame EXCEPT !.pc[g] = "select"]
              /\ UNCHANGED <<store, written>>
           \/ LET block == BuildBlock(frame.parent[g], g)
                  head == Header(store)
              IN  /\ written' = Append(written, [block |-> block, head |-> head])
                  /\ IF Extends(block, head)
                     THEN /\ store' = [store EXCEPT !.chain = Append(@, block)]
                          /\ frame' = [frame EXCEPT !.pc[g] = "select"]
                     ELSE /\ UNCHANGED store
                          /\ \E err \in BOOLEAN :
                              frame' = [frame EXCEPT !.pc[g] = "select", !.panic = err]
    /\ UNCHANGED <<req, resp, c, vsetVars, ibftVars>>

\* Close: close(d.closeCh)
DevClose ==
    /\ Alive
    /\ ~frame.closed
    /\ frame' = [frame EXCEPT !.closed = TRUE]
    /\ UNCHANGED <<store, written, req, resp, c, vsetVars, ibftVars>>

NextDev ==
    \/ DevStartSeal
    \/ DevNotified
    \/ DevClosed
    \/ DevHeader
    \/ DevDo
    \/ DevClose

SpecDev == InitDev /\ [][NextDev]_vars

\* Every block handed to WriteBlocks continued the chain at that moment.
WritesExtendHead == \A i \in 1..Len(written) : Extends(written[i].block, written[i].head)

(* C19: for any interleaving of StartSeal calls, pool notifications and    *)
(* Close, every block written through WriteBlocks has number =             *)
(* head.number + 1 and parent hash = head hash for the head at the moment  *)
(* of the write, and no two written blocks share a height or a parent.     *)
C19_SequentialSealing ==
    /\ WritesExtendHead
    /\ \A i, j \in 1..Len(written) :
        i # j => /\ written[i].block.Number # written[j].block.Number
                 /\ written[i].block.ParentHash # written[j].block.ParentHash

\* The same when StartSeal was called once: a single run loop.
SequentialWithOneLoop == Len(frame.pc) <= 1 => C19_SequentialSealing

=============================================================================
